---- MODULE Spec2Model ----
(***************************************************************************)
(* Model of the Minecraft server orchestration scripts:                    *)
(*   - discord_bot/discord_bot.py : the chat relay (MinecraftCommand,      *)
(*     on_message, on_ready, check_inactivity, send_to_api) and the single *)
(*     tracked status message persisted in bot_message_id.txt;             *)
(*   - fargate_task/app.py and lambda/lambda_function.py : the terraform   *)
(*     wrappers and the handlers that drive one infrastructure run.        *)
(*                                                                         *)
(* Every coroutine of the bot is cut at its awaits: one action performs    *)
(* the awaited remote operation and then the synchronous code that follows *)
(* it up to (not including) the next await.  discord.py runs every event   *)
(* handler as its own task, so handlers interleave at these points.        *)
(***************************************************************************)
EXTENDS Integers, Sequences, FiniteSets, TLC

(***************************************************************************)
(* Bounds of the model.                                                    *)
(***************************************************************************)
MaxEvents == 2      \* chat messages delivered to on_message
NumGuilds == 1      \* guilds the bot is a member of

(***************************************************************************)
(* Values.                                                                 *)
(***************************************************************************)
None == "None"
\* None where a message id or a message handle is expected: ids are positive.
NoId == 0
Events == 1..MaxEvents
Guilds == 1..NumGuilds
\* The ids of the messages whose id the program keeps: one of an earlier
\* run, one per guild in on_ready, at most one per command.
MsgIds == 1..(1 + NumGuilds + MaxEvents)

bot_user == "bot"
Users == {"steve"}

\* Chat texts are token sequences, so that startswith and the prefix parse
\* are computed on them.
Typed ==
    { <<"!", "start">>, <<"!", "status">>, <<"!", "foo">>, <<"Hello", "there">>, <<"hi">> }

Replies == {<<"server is starting">>}

\* str(int) and int(str) of bot_message_id.txt: decimal digit sequences.
RECURSIVE ToStr(_)
ToStr(n) == IF n < 10 THEN <<n>> ELSE Append(ToStr(n \div 10), n % 10)

RECURSIVE ParseInt(_)
ParseInt(s) == IF Len(s) = 1 THEN s[1] ELSE 10 * ParseInt(SubSeq(s, 1, Len(s) - 1)) + s[Len(s)]

NoFile == <<>>

(***************************************************************************)
(* discord_bot.py: constants and pure helpers.                             *)
(***************************************************************************)
channel_name == "mango-minecraft"
command_prefix == "!"
VALID_COMMANDS == {"start", "stop", "status"}
\* The callbacks registered with @bot.command, and the literal each passes
\* to MinecraftCommand.
RegisteredCommands == [start |-> "start", status |-> "status", stop |-> "stop"]
inactivity_threshold == 2

HELP_MESSAGES ==
    << <<"start", "Use this command to start the Minecraft server">>,
       <<"status", "I'll get the latest updates for you">>,
       <<"stop", "the server will safely stop">> >>

\* The loop of lines 149-151 and 187-189.
help_message_content ==
    [i \in 1..Len(HELP_MESSAGES) |->
        <<HELP_MESSAGES[i][1], ": ", HELP_MESSAGES[i][2]>>]

ProgressNotice(name, command) == <<"User ", name, " used ", command, " command...">>
InvalidCommandText(command) == <<"Invalid command: ", command, ". Please use a valid command.">>
ErrorContent(error_message) == <<"Error: \n">> \o error_message
FallbackApology(author) == <<"@", author, ", we're sorry but we encountered a problem">>

load_bot_message_id(f) == IF f = NoFile THEN NoId ELSE ParseInt(f)

\* Mutant: the save leaves the file as an absent one.
save_bot_message_id_skipped(message_id) == NoFile
save_bot_message_id(message_id) == ToStr(message_id)

\* Exception texts.
NotFound == <<"404 Not Found (error code: 10008): Unknown Message">>
NoneHasNoJson == <<"'NoneType' object has no attribute 'json'">>
JSONDecodeError == <<"Expecting value: line 1 column 1 (char 0)">>
NetworkError == <<"HTTPSConnectionPool: Max retries exceeded">>

\* What the network does to one requests.post: a transport or HTTP error
\* (the RequestException of line 68), or a response whose body is a JSON
\* object (a function from field names) or no JSON at all.
NoBody == [f \in {} |-> <<>>]
JsonBodies ==
    { [f \in {"BOT_REPLY"} |-> r] : r \in Replies } \cup { [f \in {"STATUS"} |-> <<"ok">>] }
NetOutcomes ==
    { [error |-> NetworkError, is_json |-> FALSE, body |-> NoBody],
      [error |-> <<>>, is_json |-> FALSE, body |-> NoBody] }
    \cup { [error |-> <<>>, is_json |-> TRUE, body |-> b] : b \in JsonBodies }

\* send_to_api: returns None without posting when API_URL is unset, None
\* when the post raises RequestException (caught and logged at lines
\* 68-70), raises when the body logged at line 72 is no JSON, and the
\* response otherwise.  posted: the bodies handed to requests.post.
NotCalled ==
    [is_none |-> TRUE, body |-> NoBody, raised |-> <<>>, caught |-> <<>>, posted |-> <<>>]

\* Mutant: a post that raised is tried a second time.
send_to_api_retry(data, url, net) ==
    IF url = None
    THEN NotCalled
    ELSE IF net.error # <<>>
    THEN [NotCalled EXCEPT !.caught = net.error, !.posted = <<data, data>>]
    ELSE IF ~net.is_json
    THEN [NotCalled EXCEPT !.raised = JSONDecodeError, !.posted = <<data>>]
    ELSE [NotCalled EXCEPT !.is_none = FALSE, !.body = net.body, !.posted = <<data>>]

send_to_api(data, url, net) ==
    IF url = None
    THEN NotCalled
    ELSE IF net.error # <<>>
    THEN [NotCalled EXCEPT !.caught = net.error, !.posted = <<data>>]
    ELSE IF ~net.is_json
    THEN [NotCalled EXCEPT !.raised = JSONDecodeError, !.posted = <<data>>]
    ELSE [NotCalled EXCEPT !.is_none = FALSE, !.body = net.body, !.posted = <<data>>]

\* dict.get(key, default)
Get(json, key, default) == IF key \in DOMAIN json THEN json[key] ELSE default

\* Mutant: the reply is read under another field name.
AfterApi_other_field(r, author, command) ==
    IF r.raised # <<>>
    THEN [pc |-> "edit_error", pending |-> ErrorContent(r.raised)]
    ELSE IF r.is_none
    THEN [pc |-> "edit_error", pending |-> ErrorContent(NoneHasNoJson)]
    ELSE [pc |-> "edit_reply", pending |-> Get(r.body, "REPLY", FallbackApology(author))]

\* Lines 103-108 and the except of 109-111, up to the await they reach:
\* which edit comes next, with which content.  response.json() is evaluated
\* at line 104, before the None test of line 105.
AfterApi(r, author, command) ==
    IF r.raised # <<>>
    THEN [pc |-> "edit_error", pending |-> ErrorContent(r.raised)]
    ELSE IF r.is_none
    THEN [pc |-> "edit_error", pending |-> ErrorContent(NoneHasNoJson)]
    ELSE [pc |-> "edit_reply", pending |-> Get(r.body, "BOT_REPLY", FallbackApology(author))]

(***************************************************************************)
(* fargate_task/app.py and lambda/lambda_function.py: the terraform        *)
(* wrappers.  A tool result is the triple python_terraform returns.        *)
(***************************************************************************)
RetCodes == {0, 1, 2}
Stdouts == {<<>>, <<"Terraform has been successfully initialized!">>, <<"Apply complete!">>}
Stderrs == {<<>>, <<"Error: Failed to get existing workspaces">>, <<"Error: No valid credential sources found">>}
ToolResults ==
    [return_code : RetCodes, stdout : Stdouts, stderr : Stderrs]

Returned(value) == [raised |-> <<>>, value |-> value]
Raised(message) == [raised |-> message, value |-> <<>>]

\* Mutants: the exit code is not looked at.
terraform_init_unchecked(res) == Returned(res.stdout)
terraform_destroy_unchecked(res) == Returned(res.stdout)

\* app.py lines 111-133
terraform_init(res) ==
    IF res.return_code # 0
    THEN Raised(<<"Terraform init failed:\n">> \o res.stderr)
    ELSE Returned(res.stdout)

terraform_apply(res) ==
    IF res.return_code # 0
    THEN Raised(<<"Terraform apply failed:\n">> \o res.stderr)
    ELSE Returned(res.stdout)

terraform_destroy(res) ==
    IF res.return_code # 0
    THEN Raised(<<"Terraform destroy failed:\n">> \o res.stderr)
    ELSE Returned(res.stdout)

\* lambda_function.py lines 96-118
lambda_terraform_init(res) ==
    IF res.return_code # 0
    THEN Raised(<<"Terraform init failed:\n">> \o res.stderr)
    ELSE Returned(res.stdout)

lambda_terraform_apply(res) ==
    IF res.return_code # 0
    THEN Raised(<<"Terraform apply failed:\n">> \o res.stderr)
    ELSE Returned(res.stdout)

lambda_terraform_destroy(res) ==
    IF res.return_code # 0
    THEN Raised(<<"Terraform destroy failed:\n">> \o res.stderr)
    ELSE Returned(res.stdout)

(***************************************************************************)
(* lambda_function/utils/env_manager.py: EnvironmentVariables.             *)
(***************************************************************************)
required_configs ==
    <<"MC_PORT", "MC_SERVER_IP",
      "CLUSTER", "CONTAINER_NAME", "SUBNET_ID", "SECURITY_GROUP_ID",
      "TASK_DEFINITION_NAME",
      "TF_USER_TOKEN",
      "BOT_COMMAND_NAME",
      "GIT_PRIVATE_KEY",
      "EC2_PRIVATE_KEY">>

EnvNames == {required_configs[i] : i \in DOMAIN required_configs} \cup {"TAGS_JSON"}

\* The types whose instances accept  obj[key] = value.  typing.List is an
\* instance of _SpecialGenericAlias, which defines no __setitem__.
ItemAssignable == {"dict", "list"}
typing_List == "_SpecialGenericAlias"
ItemAssignmentError(type) ==
    <<"TypeError: ", type, " object does not support item assignment">>

\* MissingConfigurationException.__init__ (lines 108-110): the names joined.
MissingConfigurationException(missing_configs) ==
    <<"Missing environment variables: ">> \o missing_configs

\* Lines 41-45: the required names that os.environ lacks, in order.
missing_configs(environ) ==
    LET absent(config) == config \notin environ
    IN  SelectSeq(required_configs, absent)

\* check_configuration (lines 19-50).  Line 21 is the chained assignment
\*   required_configs = List[str] = [...]
\* whose second target stores the list into typing.List under the key str.
check_configuration(environ) ==
    IF typing_List \notin ItemAssignable
    THEN Raised(ItemAssignmentError(typing_List))
    ELSE IF missing_configs(environ) # <<>>
    THEN Raised(MissingConfigurationException(missing_configs(environ)))
    ELSE Returned(<<>>)

\* The attributes __init__ (lines 16-17) sets on the instance, and those of
\* the class (lines 12-102).  REQUIRED_VARS is neither.
InstanceAttributes == {"configured", "env_vars"}
ClassAttributes ==
    {"__init__", "check_configuration", "get_vars", "_fetch_required_variables",
     "_decode_tags_json", "_verify_missing_variables", "_log_env_variables"}
AttributeError(name) ==
    <<"AttributeError: ", "EnvironmentVariables", " object has no attribute ", name>>

\* get_vars (lines 52-61): its first call, _fetch_required_variables
\* (line 67), reads self.REQUIRED_VARS before any os.getenv.
get_vars(environ) ==
    IF "REQUIRED_VARS" \notin InstanceAttributes \cup ClassAttributes
    THEN [raised |-> AttributeError("REQUIRED_VARS"), fetched |-> FALSE,
          env_vars |-> <<>>]
    ELSE [raised |-> <<>>, fetched |-> TRUE,
          env_vars |-> [var \in EnvNames |-> IF var \in environ THEN "set" ELSE None]]

(***************************************************************************)
(* State.                                                                  *)
(***************************************************************************)
VARIABLES
    bot_message_id,     \* the module global
    file,               \* contents of bot_message_id.txt
    idle_minutes,       \* (datetime.now() - last_command_time).total_seconds() // 60,
                        \* counted up to one past the threshold it is compared with
    api_url,            \* os.getenv('API_URL')
    messages,           \* live messages whose id the program holds: id -> [chan, content]
    next_id,            \* the id the chat service gives the next such message
    untracked,          \* live bot messages whose id nothing holds: {[chan, content]}
    setup,              \* per guild: "none" | "category" | "channel"
    task,               \* per event: the on_message/execute coroutine
    ready,              \* the on_ready coroutine
    loop,               \* the check_inactivity task: stopped | running | failed
    run,                \* one infrastructure run (server_handler/lambda_handler)
    call,               \* one call of a terraform wrapper
    env                 \* one process that builds an EnvironmentVariables

vars == <<bot_message_id, file, idle_minutes, api_url, messages,
          next_id, untracked, setup, task, ready, loop, run, call, env>>

botVars == <<bot_message_id, file, idle_minutes, api_url, messages,
             next_id, untracked, setup, task, ready, loop>>

IdleTask ==
    [pc |-> "idle", guild |-> 0, author |-> None, content |-> <<>>,
     command |-> None, fetch_id |-> NoId, bot_message |-> NoId,
     pending |-> <<>>, user_msg |-> "none", api_calls |-> 0, posts |-> <<>>,
     api |-> NotCalled, result |-> None]

NoResult == [return_code |-> 0, stdout |-> <<>>, stderr |-> <<>>]

\* log: the calls the handler has made, in order.
IdleRun ==
    [pc |-> "idle", handler |-> None, command |-> None, log |-> <<>>,
     init |-> NoResult, error |-> <<>>]
IdleCall ==
    [pc |-> "idle", wrapper |-> None, res |-> NoResult, out |-> Returned(<<>>)]

\* environ: the names os.environ holds.  constructed: __init__ returned.
\* fetched: os.getenv has been called for a variable.
NoEnv ==
    [pc |-> "start", environ |-> {}, constructed |-> FALSE, fetched |-> FALSE,
     error |-> <<>>, env_vars |-> <<>>]

\* A finished coroutine keeps what the invocation did and drops its locals.
Finish(t, result) ==
    [t EXCEPT !.pc = "done", !.result = result, !.guild = 0, !.content = <<>>,
              !.fetch_id = NoId, !.bot_message = NoId, !.pending = <<>>,
              !.api = NotCalled]

Alive(m) == m \in DOMAIN messages
Create(m, chan, content) ==
    [x \in DOMAIN messages \cup {m} |->
        IF x = m THEN [chan |-> chan, content |-> content] ELSE messages[x]]
Edit(m, content) == [messages EXCEPT ![m].content = content]
Remove(ms) == [x \in DOMAIN messages \ ms |-> messages[x]]

(***************************************************************************)
(* Init: the module has been imported (lines 20-34), nothing has run.      *)
(* bot_message_id.txt is absent, or holds the id of an earlier run whose   *)
(* message is still there or is gone.                                      *)
(***************************************************************************)
InitBot ==
    /\ idle_minutes = 0
    /\ api_url \in {None, "https://api"}
    /\ setup \in [Guilds -> {"none", "channel"}]
    /\ \E prior \in {"absent", "live", "gone"} :
        /\ file = IF prior = "absent" THEN NoFile ELSE ToStr(1)
        /\ messages =
            IF prior = "live" /\ setup[1] = "channel"
            THEN (1 :> [chan |-> 1, content |-> help_message_content])
            ELSE <<>>
    /\ bot_message_id = load_bot_message_id(file)
    /\ next_id = 2
    /\ untracked = {}
    /\ task = [e \in Events |-> IdleTask]
    /\ ready = [pc |-> "pending", guild |-> 0, fetch_id |-> NoId]
    /\ loop = "stopped"

Init ==
    /\ InitBot
    /\ run = IdleRun
    /\ call = IdleCall
    /\ env = NoEnv

(***************************************************************************)
(* on_message (lines 199-209) and MinecraftCommand.execute (lines 85-117). *)
(***************************************************************************)
startswith(content, word) == Len(content) > 0 /\ content[1] = word

\* Mutant: on_error edits the handle without looking whether there is one.
on_error_always_edit(t, error_message) ==
    [t EXCEPT !.pc = "edit_error", !.pending = ErrorContent(error_message)]

\* MinecraftCommand.on_error up to its await: an edit of the handle when
\* there is one, a fresh message otherwise.
on_error(t, error_message) ==
    [t EXCEPT !.pc = IF t.bot_message # NoId THEN "edit_error" ELSE "send_error",
              !.pending = ErrorContent(error_message)]

\* Mutant: execute sends a new notice whether or not an id is tracked.
execute_entry_always_send(t, command, id) ==
    IF command \notin VALID_COMMANDS
    THEN [t EXCEPT !.command = command, !.pc = "send_error",
                   !.pending = ErrorContent(InvalidCommandText(command))]
    ELSE [t EXCEPT !.command = command, !.pc = "send_notice"]

\* execute from its entry to its first await (lines 86-96).  The argument
\* of fetch_message is evaluated here.
execute_entry(t, command, id) ==
    IF command \notin VALID_COMMANDS
    THEN on_error([t EXCEPT !.command = command], InvalidCommandText(command))
    ELSE IF id # NoId
    THEN [t EXCEPT !.command = command, !.pc = "fetch", !.fetch_id = id]
    ELSE [t EXCEPT !.command = command, !.pc = "send_notice"]

\* bot.process_commands: the prefix, then the callback registered under the
\* invoked name.  A name without a callback raises CommandNotFound inside
\* the framework, which logs it: no callback runs.
InvokedName(content) ==
    IF startswith(content, command_prefix) /\ Len(content) > 1 THEN content[2] ELSE None

HasCallback(content) == InvokedName(content) \in DOMAIN RegisteredCommands

\* on_message up to its first await.
on_message(e, author, g, chan, content) ==
    /\ task[e].pc = "idle"
    /\ e > 1 => task[e - 1].pc # "idle"
    /\ chan = channel_name => setup[g] = "channel"
    /\ task' = [task EXCEPT ![e] =
            IF author = bot_user \/ chan # channel_name
            THEN Finish(IdleTask, "ignored")
            ELSE [IdleTask EXCEPT
                    !.pc = IF startswith(content, "Hello") THEN "hello" ELSE "delete",
                    !.guild = g, !.author = author, !.content = content,
                    !.user_msg = "present"]]
    /\ UNCHANGED <<bot_message_id, file, idle_minutes, api_url, messages,
                   next_id, untracked, setup, ready, loop, run, call, env>>

\* await message.channel.send("Hello!")
SendHello(e) ==
    /\ task[e].pc = "hello"
    /\ untracked' = untracked \cup {[chan |-> task[e].guild, content |-> <<"Hello!">>]}
    /\ task' = [task EXCEPT ![e].pc = "delete"]
    /\ UNCHANGED <<bot_message_id, file, idle_minutes, api_url, messages,
                   next_id, setup, ready, loop, run, call, env>>

\* await message.delete(), then process_commands into the callback and
\* execute, as far as execute's first await.
DeleteAndDispatch(e) ==
    /\ task[e].pc = "delete"
    /\ LET t == task[e] IN
        IF t.user_msg # "present"
        THEN /\ task' = [task EXCEPT ![e] = Finish(t, "raised")]
             /\ UNCHANGED idle_minutes
        ELSE LET d == [t EXCEPT !.user_msg = "deleted", !.content = <<>>] IN
             IF HasCallback(t.content)
             THEN /\ idle_minutes' = 0
                  /\ task' = [task EXCEPT ![e] =
                        execute_entry(d, RegisteredCommands[InvokedName(t.content)],
                                      bot_message_id)]
             ELSE /\ task' = [task EXCEPT ![e] = Finish(d, "no_callback")]
                  /\ UNCHANGED idle_minutes
    /\ UNCHANGED <<bot_message_id, file, api_url, messages,
                   next_id, untracked, setup, ready, loop, run, call, env>>

\* await self.context.fetch_message(bot_message_id), line 94
FetchMessage(e) ==
    /\ task[e].pc = "fetch"
    /\ LET t == task[e] IN
        task' = [task EXCEPT ![e] =
            IF Alive(t.fetch_id) /\ messages[t.fetch_id].chan = t.guild
            THEN [t EXCEPT !.pc = "edit_progress", !.bot_message = t.fetch_id,
                           !.fetch_id = NoId]
            ELSE on_error([t EXCEPT !.fetch_id = NoId], NotFound)]
    /\ UNCHANGED <<bot_message_id, file, idle_minutes, api_url, messages,
                   next_id, untracked, setup, ready, loop, run, call, env>>

\* await self.context.send(...), then lines 97-98
SendNotice(e) ==
    /\ task[e].pc = "send_notice"
    /\ LET t == task[e] IN
        /\ messages' = Create(next_id, t.guild, ProgressNotice(t.author, t.command))
        /\ next_id' = next_id + 1
        /\ bot_message_id' = next_id
        /\ file' = save_bot_message_id(next_id)
        /\ task' = [task EXCEPT ![e] =
                [t EXCEPT !.pc = "edit_progress", !.bot_message = next_id]]
    /\ UNCHANGED <<idle_minutes, api_url, untracked, setup, ready, loop, run, call, env>>

\* await self.bot_message.edit(in-progress notice), line 100, then the
\* blocking send_to_api and lines 103-105
EditProgress(e, net) ==
    /\ task[e].pc = "edit_progress"
    /\ LET t == task[e] IN
        IF ~Alive(t.bot_message)
        THEN /\ task' = [task EXCEPT ![e] = on_error(t, NotFound)]
             /\ UNCHANGED messages
        ELSE LET data == [command |-> t.command]
                 r == send_to_api(data, api_url, net)
                 n == AfterApi(r, t.author, t.command)
             IN  /\ messages' = Edit(t.bot_message, ProgressNotice(t.author, t.command))
                 /\ task' = [task EXCEPT ![e] =
                        [t EXCEPT !.pc = n.pc, !.pending = n.pending, !.api = r,
                                  !.api_calls = @ + 1, !.posts = @ \o r.posted]]
    /\ UNCHANGED <<bot_message_id, file, idle_minutes, api_url,
                   next_id, untracked, setup, ready, loop, run, call, env>>

\* await self.bot_message.edit(content=BOT_REPLY), line 106
EditReply(e) ==
    /\ task[e].pc = "edit_reply"
    /\ LET t == task[e] IN
        IF Alive(t.bot_message)
        THEN /\ messages' = Edit(t.bot_message, t.pending)
             /\ task' = [task EXCEPT ![e] = Finish(t, "replied")]
        ELSE /\ task' = [task EXCEPT ![e] = on_error(t, NotFound)]
             /\ UNCHANGED messages
    /\ UNCHANGED <<bot_message_id, file, idle_minutes, api_url,
                   next_id, untracked, setup, ready, loop, run, call, env>>

\* on_error with a handle: await self.bot_message.edit(...), line 115.  An
\* edit that fails here leaves execute with the exception.
EditError(e) ==
    /\ task[e].pc = "edit_error"
    /\ LET t == task[e] IN
        IF Alive(t.bot_message)
        THEN /\ messages' = Edit(t.bot_message, t.pending)
             /\ task' = [task EXCEPT ![e] = Finish(t, "error_edited")]
        ELSE /\ task' = [task EXCEPT ![e] = Finish(t, "raised")]
             /\ UNCHANGED messages
    /\ UNCHANGED <<bot_message_id, file, idle_minutes, api_url,
                   next_id, untracked, setup, ready, loop, run, call, env>>

\* on_error without a handle: await self.context.send(...), line 117
SendError(e) ==
    /\ task[e].pc = "send_error"
    /\ untracked' = untracked \cup {[chan |-> task[e].guild, content |-> task[e].pending]}
    /\ task' = [task EXCEPT ![e] = Finish(task[e], "error_sent")]
    /\ UNCHANGED <<bot_message_id, file, idle_minutes, api_url, messages,
                   next_id, setup, ready, loop, run, call, env>>

(***************************************************************************)
(* check_inactivity (lines 139-152).  `id` at line 146 is the builtin      *)
(* function: bot.get_channel finds no channel under that key and returns   *)
(* None, so line 147 raises AttributeError before its await and the        *)
(* tasks.loop ends with that exception.                                    *)
(***************************************************************************)
\* bot.get_channel: a lookup of the key among the ids of the cached
\* channels (one monitored channel per guild, keyed by the guild here).
get_channel(key) ==
    IF key.type = "int" /\ key.value \in Guilds /\ setup[key.value] = "channel"
    THEN key.value ELSE NoId

\* The name `id` at line 146: no local or global of the module binds it.
builtin_id == [type |-> "builtin_function_or_method", value |-> 0]

check_inactivity ==
    /\ loop = "running"
    /\ loop' = IF idle_minutes > inactivity_threshold /\ bot_message_id # NoId
                  /\ get_channel(builtin_id) = NoId
               THEN "failed" ELSE loop
    /\ UNCHANGED <<bot_message_id, file, idle_minutes, api_url, messages,
                   next_id, untracked, setup, task, ready, run, call, env>>

(***************************************************************************)
(* on_ready (lines 155-196), one guild after the other.                    *)
(***************************************************************************)
\* The top of the for body up to its first await (lines 165-173).
EnterGuild(g) ==
    IF g > NumGuilds
    THEN [pc |-> "done", guild |-> 0, fetch_id |-> NoId]
    ELSE [pc |-> IF setup[g] = "none" THEN "create_category" ELSE "fetch_channels",
          guild |-> g, fetch_id |-> NoId]

OnReady ==
    /\ ready.pc = "pending"
    /\ loop' = "running"
    /\ ready' = EnterGuild(1)
    /\ UNCHANGED <<bot_message_id, file, idle_minutes, api_url, messages,
                   next_id, untracked, setup, task, run, call, env>>

CreateCategory ==
    /\ ready.pc = "create_category"
    /\ setup' = [setup EXCEPT ![ready.guild] = "category"]
    /\ ready' = [ready EXCEPT !.pc = "fetch_channels"]
    /\ UNCHANGED <<bot_message_id, file, idle_minutes, api_url, messages,
                   next_id, untracked, task, loop, run, call, env>>

FetchChannels ==
    /\ ready.pc = "fetch_channels"
    /\ ready' = [ready EXCEPT !.pc = IF setup[ready.guild] = "channel"
                                     THEN "purge" ELSE "create_text_channel"]
    /\ UNCHANGED <<bot_message_id, file, idle_minutes, api_url, messages,
                   next_id, untracked, setup, task, loop, run, call, env>>

CreateTextChannel ==
    /\ ready.pc = "create_text_channel"
    /\ setup' = [setup EXCEPT ![ready.guild] = "channel"]
    /\ ready' = [ready EXCEPT !.pc = "purge"]
    /\ UNCHANGED <<bot_message_id, file, idle_minutes, api_url, messages,
                   next_id, untracked, task, loop, run, call, env>>

\* await channel.purge(limit=None): every message of the channel, the
\* users' included.
Purge ==
    /\ ready.pc = "purge"
    /\ messages' = Remove({m \in DOMAIN messages : messages[m].chan = ready.guild})
    /\ untracked' = {u \in untracked : u.chan # ready.guild}
    /\ task' = [e \in Events |->
            IF task[e].user_msg = "present" /\ task[e].guild = ready.guild
            THEN [task[e] EXCEPT !.user_msg = "purged"] ELSE task[e]]
    /\ ready' = [ready EXCEPT !.pc = "send"]
    /\ UNCHANGED <<bot_message_id, file, idle_minutes, api_url,
                   next_id, setup, loop, run, call, env>>

\* await channel.send(help), then lines 192-195
SendHelp ==
    /\ ready.pc = "send"
    /\ messages' = Create(next_id, ready.guild, help_message_content)
    /\ next_id' = next_id + 1
    /\ bot_message_id' = next_id
    /\ file' = save_bot_message_id(next_id)
    /\ ready' = [ready EXCEPT !.pc = "fetch_message", !.fetch_id = next_id]
    /\ UNCHANGED <<idle_minutes, api_url, untracked, setup, task, loop, run, call, env>>

\* await channel.fetch_message(bot_message_id), line 196, then the next guild
ReadyFetch ==
    /\ ready.pc = "fetch_message"
    /\ ready' = IF Alive(ready.fetch_id)
                THEN EnterGuild(ready.guild + 1)
                ELSE [pc |-> "raised", guild |-> 0, fetch_id |-> NoId]
    /\ UNCHANGED <<bot_message_id, file, idle_minutes, api_url, messages,
                   next_id, untracked, setup, task, loop, run, call, env>>

(***************************************************************************)
(* The environment: the clock (a minute passes; execute's line 88 sets the  *)
(* count back to 0), and a member deleting a message the program *)
(* holds the id of.                                                        *)
(***************************************************************************)
Tick ==
    /\ idle_minutes <= inactivity_threshold
    /\ idle_minutes' = idle_minutes + 1
    /\ UNCHANGED <<bot_message_id, file, api_url, messages,
                   next_id, untracked, setup, task, ready, loop, run, call, env>>

Held(m) ==
    \/ m = bot_message_id
    \/ m = ready.fetch_id
    \/ \E e \in Events : m \in {task[e].fetch_id, task[e].bot_message}

DeleteExternally(m) ==
    /\ Alive(m)
    /\ Held(m)
    /\ messages' = Remove({m})
    /\ UNCHANGED <<bot_message_id, file, idle_minutes, api_url,
                   next_id, untracked, setup, task, ready, loop, run, call, env>>

(***************************************************************************)
(* One infrastructure run: server_handler (app.py lines 138-190) and       *)
(* lambda_handler (lambda_function.py lines 123-168).                      *)
(***************************************************************************)
\* The value of the BOT_COMMAND parameter: any string.
Commands == {"start", "stop", "status", "restart"}

\* Lines 139-179: the calls made before the branch on the command.
ServerSetupCalls ==
    <<"get_ssm_param", "get_ssm_param", "write_to_tmp_file", "write_to_tmp_file",
      "git_clone", "git_clone", "Terraform", "get_ssm_param">>

\* lambda_handler lines 125-166; terraform_init and terraform_apply are
\* commented out at lines 167-168.
LambdaCalls ==
    <<"get_git_ssh_key", "get_git_ssh_key", "git_clone", "copytree", "copy2",
      "create_private_key", "Terraform">>

\* The collaborators that can raise: the parameter store, the git
\* transport and the file copies.  0: none of them raises; k: call k does.
Raising == {"get_ssm_param", "get_git_ssh_key", "git_clone", "copytree", "copy2"}
FailPoints(calls) == {0} \cup {k \in DOMAIN calls : calls[k] \in Raising}
Made(calls, k) == IF k = 0 THEN calls ELSE SubSeq(calls, 1, k)
Failure(calls, k) == IF k = 0 THEN <<>> ELSE <<calls[k], " failed">>

\* Lines 181-190 up to the call of terraform_init: the key of the start
\* branch (its write can raise), nothing for stop, the message for any
\* other command.
BeforeInit(command, key_ok) ==
    IF command = "start"
    THEN IF key_ok
         THEN [calls |-> <<"create_private_key">>, pc |-> "init", error |-> <<>>]
         ELSE [calls |-> <<"create_private_key">>, pc |-> "failed",
               error |-> <<"create_private_key", " failed">>]
    ELSE IF command = "stop"
    THEN [calls |-> <<>>, pc |-> "init", error |-> <<>>]
    ELSE [calls |-> <<"print">>, pc |-> "done", error |-> <<>>]

\* terraform_init(tf) and what follows it in the branch.  terraform_apply
\* (line 184) and terraform_destroy (line 188) are commented out.
AfterInit(command, r) ==
    IF r.raised # <<>>
    THEN [calls |-> <<"terraform_init">>, pc |-> "failed", error |-> r.raised]
    ELSE IF command = "start"
    THEN [calls |-> <<"terraform_init", "print">>, pc |-> "done", error |-> <<>>]
    ELSE [calls |-> <<"terraform_init">>, pc |-> "done", error |-> <<>>]

server_handler(command) ==
    /\ run.pc = "idle"
    /\ run' = [IdleRun EXCEPT !.pc = "setup", !.handler = "server_handler",
                              !.command = command]
    /\ UNCHANGED <<botVars, call, env>>

ServerSetup(k) ==
    /\ run.pc = "setup"
    /\ run.handler = "server_handler"
    /\ run' = [run EXCEPT !.log = @ \o Made(ServerSetupCalls, k),
                          !.pc = IF k = 0 THEN "branch" ELSE "failed",
                          !.error = Failure(ServerSetupCalls, k)]
    /\ UNCHANGED <<botVars, call, env>>

ServerBranch(key_ok) ==
    /\ run.pc = "branch"
    /\ LET b == BeforeInit(run.command, key_ok) IN
        run' = [run EXCEPT !.log = @ \o b.calls, !.pc = b.pc, !.error = b.error]
    /\ UNCHANGED <<botVars, call, env>>

ServerInit(res) ==
    /\ run.pc = "init"
    /\ LET b == AfterInit(run.command, terraform_init(res)) IN
        run' = [run EXCEPT !.log = @ \o b.calls, !.pc = b.pc, !.error = b.error,
                           !.init = res]
    /\ UNCHANGED <<botVars, call, env>>

lambda_handler(command) ==
    /\ run.pc = "idle"
    /\ run' = [IdleRun EXCEPT !.pc = "setup", !.handler = "lambda_handler",
                              !.command = command]
    /\ UNCHANGED <<botVars, call, env>>

LambdaRun(k) ==
    /\ run.pc = "setup"
    /\ run.handler = "lambda_handler"
    /\ run' = [run EXCEPT !.log = @ \o Made(LambdaCalls, k),
                          !.pc = IF k = 0 THEN "done" ELSE "failed",
                          !.error = Failure(LambdaCalls, k)]
    /\ UNCHANGED <<botVars, call, env>>

\* The process exits; the next job starts a new one.
Exit ==
    /\ run.pc \in {"done", "failed"}
    /\ run' = IdleRun
    /\ UNCHANGED <<botVars, call, env>>

(***************************************************************************)
(* One call of a wrapper, on any answer of the tool.                       *)
(***************************************************************************)
CallWrapper(name, res, out) ==
    /\ call' = [pc |-> "returned", wrapper |-> name, res |-> res, out |-> out]
    /\ UNCHANGED <<botVars, run, env>>

Call_terraform_init == \E res \in ToolResults :
    CallWrapper("app.terraform_init", res, terraform_init(res))
Call_terraform_apply == \E res \in ToolResults :
    CallWrapper("app.terraform_apply", res, terraform_apply(res))
Call_terraform_destroy == \E res \in ToolResults :
    CallWrapper("app.terraform_destroy", res, terraform_destroy(res))
Call_lambda_terraform_init == \E res \in ToolResults :
    CallWrapper("lambda.terraform_init", res, lambda_terraform_init(res))
Call_lambda_terraform_apply == \E res \in ToolResults :
    CallWrapper("lambda.terraform_apply", res, lambda_terraform_apply(res))
Call_lambda_terraform_destroy == \E res \in ToolResults :
    CallWrapper("lambda.terraform_destroy", res, lambda_terraform_destroy(res))

(***************************************************************************)
(* A process that builds an EnvironmentVariables and asks it for the       *)
(* variables: EnvironmentVariables() (lines 12-17), then get_vars() when   *)
(* the constructor returned.                                               *)
(***************************************************************************)
Configure ==
    /\ env.pc = "start"
    /\ LET c == check_configuration(env.environ)
           v == get_vars(env.environ)
       IN  env' =
            IF c.raised # <<>>
            THEN [env EXCEPT !.pc = "raised", !.error = c.raised]
            ELSE IF v.raised # <<>>
            THEN [env EXCEPT !.pc = "raised", !.constructed = TRUE,
                             !.fetched = v.fetched, !.error = v.raised]
            ELSE [env EXCEPT !.pc = "returned", !.constructed = TRUE,
                             !.fetched = v.fetched, !.env_vars = v.env_vars]
    /\ UNCHANGED <<botVars, run, call>>

Next ==
    \/ \E e \in Events, author \in Users \cup {bot_user}, g \in Guilds,
          chan \in {channel_name, "general"}, content \in Typed :
            on_message(e, author, g, chan, content)
    \/ \E e \in Events : SendHello(e)
    \/ \E e \in Events : DeleteAndDispatch(e)
    \/ \E e \in Events : FetchMessage(e)
    \/ \E e \in Events : SendNotice(e)
    \/ \E e \in Events, net \in NetOutcomes : EditProgress(e, net)
    \/ \E e \in Events : EditReply(e)
    \/ \E e \in Events : EditError(e)
    \/ \E e \in Events : SendError(e)
    \/ check_inactivity
    \/ OnReady
    \/ CreateCategory
    \/ FetchChannels
    \/ CreateTextChannel
    \/ Purge
    \/ SendHelp
    \/ ReadyFetch
    \/ Tick
    \/ \E m \in MsgIds : DeleteExternally(m)

Spec == Init /\ [][Next]_vars

(***************************************************************************)
(* The infrastructure task and the wrappers on their own: the bot is not   *)
(* part of those processes.                                                *)
(***************************************************************************)
BotNotStarted ==
    /\ idle_minutes = 0
    /\ api_url = None
    /\ setup = [g \in Guilds |-> "none"]
    /\ file = NoFile
    /\ messages = <<>>
    /\ bot_message_id = NoId
    /\ next_id = 2
    /\ untracked = {}
    /\ task = [e \in Events |-> IdleTask]
    /\ ready = [pc |-> "pending", guild |-> 0, fetch_id |-> NoId]
    /\ loop = "stopped"

InitInfra == BotNotStarted /\ run = IdleRun /\ call = IdleCall /\ env = NoEnv

NextInfra ==
    \/ \E command \in Commands : server_handler(command)
    \/ \E k \in FailPoints(ServerSetupCalls) : ServerSetup(k)
    \/ \E key_ok \in BOOLEAN : ServerBranch(key_ok)
    \/ \E res \in ToolResults : ServerInit(res)
    \/ \E command \in Commands : lambda_handler(command)
    \/ \E k \in FailPoints(LambdaCalls) : LambdaRun(k)
    \/ Exit

SpecInfra == InitInfra /\ [][NextInfra]_vars

NextWrappers ==
    \/ Call_terraform_init
    \/ Call_terraform_apply
    \/ Call_terraform_destroy
    \/ Call_lambda_terraform_init
    \/ Call_lambda_terraform_apply
    \/ Call_lambda_terraform_destroy

SpecWrappers == InitInfra /\ [][NextWrappers]_vars

\* The configuration on its own, under every environment.
InitEnv ==
    /\ BotNotStarted /\ run = IdleRun /\ call = IdleCall
    /\ \E environ \in SUBSET EnvNames : env = [NoEnv EXCEPT !.environ = environ]

NextEnv == Configure

SpecEnv == InitEnv /\ [][NextEnv]_vars

(***************************************************************************)
(* Properties.                                                             *)
(***************************************************************************)
\* text occurs in content as a run of consecutive tokens.
Contains(content, text) ==
    \E i \in 0..(Len(content) - Len(text)) :
        SubSeq(content, i + 1, i + Len(text)) = text

Reported(reports, chan, text) ==
    \E u \in reports : u.chan = chan /\ Contains(u.content, text)

\* The command name of an invocation: what execute was given, or what was
\* typed after the prefix when no callback ran.
Invoked(t) == IF t.command # None THEN t.command ELSE InvokedName(t.content)

Returns(e) == task[e].pc \notin {"idle", "done"} /\ task'[e].pc = "done"

\* C1: every command name outside {start, stop, status}, typed with the
\* prefix in the monitored channel, is answered with a message containing
\* "Invalid command: <name>", and its invocation makes no API call.
C1_InvalidCommandReported ==
    [][\A e \in Events :
        (/\ Returns(e)
         /\ task[e].user_msg # "purged"
         /\ Invoked(task[e]) \notin VALID_COMMANDS \cup {None})
        => /\ Reported(untracked', task[e].guild, InvalidCommandText(Invoked(task[e])))
           /\ task'[e].api_calls = 0]_vars

C3_ReplyShown ==
    [][\A e \in Events :
        (Returns(e) /\ ~task[e].api.is_none /\ task'[e].result # "raised")
        => /\ task'[e].result = "replied"
           /\ task[e].bot_message \in DOMAIN messages'
           /\ messages'[task[e].bot_message].content =
                IF "BOT_REPLY" \in DOMAIN task[e].api.body
                THEN task[e].api.body["BOT_REPLY"]
                ELSE FallbackApology(task[e].author)]_vars

C3_Witness ==
    /\ \E e \in Events : task[e].result = "replied" /\ task[e].command = "start"
    /\ \E m \in DOMAIN messages : messages[m].content \in Replies
    /\ \E m \in DOMAIN messages : messages[m].content = FallbackApology("steve")

\* C4: when the post raised a network error, the message shows that error
\* once execute has returned.
C4_NetworkErrorShown ==
    [][\A e \in Events :
        (Returns(e) /\ task[e].api.caught # <<>> /\ task'[e].result # "raised")
        => /\ task[e].bot_message \in DOMAIN messages'
           /\ Contains(messages'[task[e].bot_message].content, task[e].api.caught)]_vars

\* C8: a fetch of an id that no longer resolves ends the command: no API
\* call, the error sent as a new message, the tracked id and the file as
\* they were, no message tracked in its place.
C8_UnresolvedIdFailsCommand ==
    [][\A e \in Events :
        /\ (/\ task[e].pc = "fetch" /\ task'[e].pc # "fetch"
            /\ ~(Alive(task[e].fetch_id) /\ messages[task[e].fetch_id].chan = task[e].guild))
            => /\ task'[e].pc = "send_error"
               /\ task'[e].pending = ErrorContent(NotFound)
               /\ task'[e].bot_message = NoId
               /\ <<bot_message_id, file, messages, untracked>>'
                    = <<bot_message_id, file, messages, untracked>>
        /\ (task[e].pc = "send_error" /\ task'[e].pc # "send_error")
            => /\ Returns(e)
               /\ task'[e].result = "error_sent"
               /\ task'[e].api_calls = 0 /\ task'[e].posts = <<>>
               /\ [chan |-> task[e].guild, content |-> task[e].pending] \in untracked'
               /\ <<bot_message_id, file, messages>>' = <<bot_message_id, file, messages>>]_vars

C8_Witness ==
    /\ \E e \in Events :
        task[e].result = "error_sent" /\ task[e].command \in VALID_COMMANDS
        /\ task[e].api_calls = 0
    /\ bot_message_id # NoId /\ ~Alive(bot_message_id)
    /\ file = ToStr(bot_message_id)
    /\ \E g \in Guilds : Reported(untracked, g, NotFound)

\* C9: a run of the inactivity check with more than the threshold elapsed
\* and an id tracked leaves the tracked message showing the help listing.
C9_InactivityResetsToHelp ==
    [][(/\ check_inactivity
        /\ idle_minutes > inactivity_threshold
        /\ bot_message_id # NoId /\ Alive(bot_message_id))
       => messages'[bot_message_id].content = help_message_content]_vars

\* C10: every command typed in the monitored channel has its message
\* deleted and sets last_command_time to the current time.
C10_DeletesAndResetsTimer ==
    [][\A e \in Events :
        (/\ task[e].pc = "delete" /\ task'[e].pc # "delete"
         /\ task[e].user_msg = "present"
         /\ InvokedName(task[e].content) # None)
        => task'[e].user_msg = "deleted" /\ idle_minutes' = 0]_vars

Calls(name) == {i \in DOMAIN run.log : run.log[i] = name}
Mutating == Calls("terraform_apply") \cup Calls("terraform_destroy")

\* C5: after an init that returned a non-zero exit code the run makes no
\* further call: terraform_init is the last entry of its log, the run has
\* failed, and neither apply nor destroy was invoked.
C5_InitFailureShortCircuits ==
    (Calls("terraform_init") # {} /\ run.init.return_code # 0)
    => /\ run.pc = "failed"
       /\ run.log[Len(run.log)] = "terraform_init"
       /\ Mutating = {}

C5_Witness ==
    /\ run.pc = "failed" /\ run.command = "start"
    /\ run.init.return_code # 0
    /\ run.error = <<"Terraform init failed:\n">> \o run.init.stderr

\* C6: a run of start or stop whose init succeeded and that is done has
\* invoked exactly one of apply and destroy, after init.
C6_OneMutatingStep ==
    (run.pc = "done" /\ Calls("terraform_init") # {})
    => /\ Cardinality(Mutating) = 1
       /\ \A i \in Mutating : \A j \in Calls("terraform_init") : j < i

\* C7: each wrapper raises, with the captured stderr in the message, on
\* every non-zero exit code, and returns the captured stdout on zero.
C7_WrapperOutcome ==
    call.pc = "returned" =>
        IF call.res.return_code # 0
        THEN /\ call.out.raised # <<>>
             /\ Contains(call.out.raised, call.res.stderr)
             /\ SubSeq(call.out.raised, 2, Len(call.out.raised)) = call.res.stderr
        ELSE call.out = Returned(call.res.stdout)

C7_Witness ==
    /\ call.pc = "returned"
    /\ call.wrapper = "app.terraform_destroy"
    /\ call.res.return_code = 2
    /\ call.res.stderr # <<>>
    /\ call.out.raised = <<"Terraform destroy failed:\n">> \o call.res.stderr

\* C11: a finished construction raised MissingConfigurationException naming
\* every missing required entry, before any variable was fetched, when an
\* entry was missing; with none missing it succeeded and get_vars returned
\* a map without a missing value.
C11_FailsFastOnConfiguration ==
    env.pc # "start" =>
        IF missing_configs(env.environ) # <<>>
        THEN /\ env.pc = "raised"
             /\ env.error = MissingConfigurationException(missing_configs(env.environ))
             /\ ~env.fetched
        ELSE /\ env.constructed
             /\ "TAGS_JSON" \in env.environ =>
                    /\ env.pc = "returned"
                    /\ \A var \in DOMAIN env.env_vars : env.env_vars[var] # None

\* A status message is a message created to be the tracked one: the help
\* listing of on_ready or the notice of a first command.
StatusMessages == DOMAIN messages

\* C12: at most one status message is alive, and the file holds nothing or
\* one decimal integer.
C12_AtMostOneStatusMessage ==
    /\ Cardinality(StatusMessages) <= 1
    /\ file = NoFile \/ file = ToStr(ParseInt(file))

\* The tracked message shows what a finished command left on it.
ShowsCommandResult ==
    /\ bot_message_id # NoId /\ Alive(bot_message_id)
    /\ \E e \in Events : task[e].result = "replied"
    /\ messages[bot_message_id].content # help_message_content
    /\ \A c \in VALID_COMMANDS, a \in Users :
        messages[bot_message_id].content # ProgressNotice(a, c)

\* C13: the inactivity reset and a command write the same message with no
\* exclusion, and the last write wins: a check that has passed its threshold
\* test edits the tracked message to the help listing over the result a
\* command has left on it.
C13_ResetOverwritesCommandResult ==
    [][(/\ check_inactivity
        /\ idle_minutes > inactivity_threshold
        /\ ShowsCommandResult)
       => /\ loop' = "running"
          /\ messages'[bot_message_id].content = help_message_content]_vars

\* C14: an invocation posts to the API at most once, with the body
\* {"command": <name>} of a valid command, in the step that has just edited
\* the message it resolved or created to the in-progress notice; nothing is
\* posted again after that, whatever the post answered.
C14_NoticeThenOnePost ==
    [][\A e \in Events :
        task'[e].posts # task[e].posts =>
            /\ task[e].pc = "edit_progress"
            /\ task[e].command \in VALID_COMMANDS
            /\ task[e].posts = <<>>
            /\ task'[e].posts = <<[command |-> task[e].command]>>
            /\ task[e].bot_message # NoId
            /\ task[e].bot_message \in DOMAIN messages'
            /\ messages'[task[e].bot_message].content
                    = ProgressNotice(task[e].author, task[e].command)]_vars

\* A command whose one post failed has ended with the error on its message.
C14_Witness ==
    \E e \in Events :
        /\ task[e].posts = <<[command |-> "start"]>>
        /\ task[e].result = "error_edited"
        /\ \E m \in DOMAIN messages : messages[m].content = ErrorContent(NoneHasNoJson)

\* The in-memory id and the file agree: no id and no file, or the file
\* holds the decimal form of the id.
InSync ==
    IF bot_message_id = NoId THEN file = NoFile ELSE file = ToStr(bot_message_id)

\* C15: at every await the in-memory id is None with nothing written, or
\* the integer the file holds; only the step that completes a send (the
\* notice of a first command, the help listing of on_ready) changes the two
\* copies, and it changes both to the id of the message just sent.
C15_IdMatchesFile ==
    [][/\ InSync /\ InSync'
       /\ (bot_message_id' # bot_message_id \/ file' # file) =>
            /\ \/ \E e \in Events : task[e].pc = "send_notice" /\ task'[e].pc # "send_notice"
               \/ ready.pc = "send" /\ ready'.pc # "send"
            /\ bot_message_id' = next_id
            /\ next_id \in DOMAIN messages' \ DOMAIN messages]_vars

\* on_ready has replaced the id a command persisted, while another command
\* is suspended at an await.
C15_Witness ==
    /\ ready.pc = "fetch_message"
    /\ bot_message_id = 3 /\ file = ToStr(3)
    /\ \E e \in Events : task[e].result = "replied"
    /\ \E e \in Events : task[e].pc = "fetch"

====
